---- MODULE Spec2Model ----
(***************************************************************************)
(* A model of the per-request Worker of the pentagon code-execution        *)
(* service (src/src/worker.rs) and of the three batch runners that drive   *)
(* it: the SSE runner of src/src/handlers/run.rs, the SSE runner of        *)
(* src/src/main.rs and the WebSocket handler of src/src/handlers/run.rs.   *)
(***************************************************************************)
EXTENDS Integers, Sequences, FiniteSets, TLC

(***************************************************************************)
(* Bounds of the model.                                                    *)
(***************************************************************************)
\* most executions one Worker runs (over a request's batch, or over the
\* messages of one WebSocket connection)
MaxExecs == 2
\* most initial files of a request (payload.files)
MaxFiles == 1
\* longest stream the child prints, where every stream up to a length is tried
MaxLen == 3
\* most directives the Worker of a second, concurrent request applies
MaxOtherOps == 2

(***************************************************************************)
(* Bytes.                                                                  *)
(***************************************************************************)
NL == 10
SP == 32
TAB == 9
CR == 13
\* no max_size given (Option::None)
NoMax == -1

\* two literal payloads, a host file, a blob, and what the child may print
DataX == <<120>>
DataY == <<121>>
RawOut == <<111, SP>>
RawErr == <<101>>

EmptyMap == [k \in {} |-> <<>>]
Insert(m, k, v) == [x \in (DOMAIN m) \cup {k} |-> IF x = k THEN v ELSE m[x]]
Remove(m, k) == [x \in (DOMAIN m) \ {k} |-> m[x]]

None == [some |-> FALSE, val |-> <<>>]
Some(v) == [some |-> TRUE, val |-> v]

(***************************************************************************)
(* FilePath, ExecutionTransfer (types.rs), as uniform records.             *)
(***************************************************************************)
FP(k, n, e, c, i, m) ==
    [kind |-> k, name |-> n, executable |-> e, content |-> c, id |-> i, max_size |-> m]
Local(n, e) == FP("local", n, e, <<>>, 0, NoMax)
Data(c) == FP("data", "", FALSE, c, 0, NoMax)
Remote(i) == FP("remote", i, FALSE, <<>>, 0, NoMax)
Stdout(m) == FP("stdout", "", FALSE, <<>>, 0, m)
Stderr(m) == FP("stderr", "", FALSE, <<>>, 0, m)
Stdin == FP("stdin", "", FALSE, <<>>, 0, NoMax)
Tmp(i) == FP("tmp", "", FALSE, <<>>, i, NoMax)
Transfer(f, t) == [from |-> f, to |-> t]

(***************************************************************************)
(* utils.rs: autofix.                                                      *)
(***************************************************************************)
\* a slip: the carriage return is forgotten
is_whitespace_no_cr(b) == b \in {SP, TAB}

\* utils.rs 61-63
is_whitespace(b) == b \in {SP, TAB, CR}

\* the inner scan of autofix: the first index >= i holding a newline, or Len + 1
RECURSIVE LineEnd(_, _)
LineEnd(input, i) ==
    IF i <= Len(input) /\ input[i] # NL THEN LineEnd(input, i + 1) ELSE i

\* the backtrack of autofix: line_end moved left over trailing whitespace
RECURSIVE TrimEnd(_, _, _)
TrimEnd(input, line_start, line_end) ==
    IF line_end > line_start /\ is_whitespace(input[line_end - 1])
    THEN TrimEnd(input, line_start, line_end - 1)
    ELSE line_end

RECURSIVE AutofixFrom(_, _)
AutofixFrom(input, i) ==
    IF i > Len(input) THEN <<>>
    ELSE LET e == LineEnd(input, i)
             t == TrimEnd(input, i, e)
             next == IF e <= Len(input) THEN e + 1 ELSE e
         IN SubSeq(input, i, t - 1) \o <<NL>> \o AutofixFrom(input, next)

autofix(input) == IF input = <<>> THEN <<>> ELSE AutofixFrom(input, 1)

\* a slip: the cut keeps one byte less than max_size
TruncateShort(buf, max_size) ==
    IF max_size # NoMax /\ Len(buf) > max_size THEN SubSeq(buf, 1, max_size - 1) ELSE buf

\* the max_size cut of a Stdout / Stderr source
Truncate(buf, max_size) ==
    IF max_size # NoMax /\ Len(buf) > max_size THEN SubSeq(buf, 1, max_size) ELSE buf


(***************************************************************************)
(* The inputs a request may carry.  An Execution is an immutable input     *)
(* whose fields the code reads one after the other: copy_in is drawn when  *)
(* execute is entered, copy_out and return_files when the wait on the      *)
(* child returns, die_on_error when the runner looks at the outcome.       *)
(***************************************************************************)
Modes == {"sse", "main", "ws"}

\* File (types.rs): Local {name, content} and Remote {name, id}
InitialFiles ==
    { [kind |-> "local", name |-> "a", content |-> DataX, id |-> ""],
      [kind |-> "remote", name |-> "a", content |-> <<>>, id |-> "r"] }

CopyInLists ==
    { <<>>,
      <<Transfer(Data(DataX), Tmp(7)), Transfer(Data(DataY), Tmp(7))>>,
      <<Transfer(Data(DataX), Local("a", FALSE)), Transfer(Data(DataY), Local("a", TRUE))>>,
      <<Transfer(Tmp(7), Stdin)>>,
      <<Transfer(Remote("r"), Tmp(7))>>,
      <<Transfer(Local("a", FALSE), Tmp(7))>>,
      <<Transfer(Data(DataX), Tmp(7)), Transfer(Stdin, Tmp(7))>>,
      <<Transfer(Data(DataX), Local("a", FALSE)), Transfer(Data(DataY), Stdout(NoMax))>>,
      <<Transfer(Data(DataY), Tmp(7)), Transfer(Tmp(7), Stdin)>>,
      <<Transfer(Stdout(NoMax), Tmp(7))>>,
      <<Transfer(Stderr(NoMax), Tmp(7))>>,
      <<Transfer(Data(DataX), Data(DataY))>>,
      <<Transfer(Data(DataX), Stdout(NoMax))>>,
      <<Transfer(Remote("r"), Stderr(NoMax))>>,
      <<Transfer(Data(DataX), Remote("r"))>> }

CopyOutLists ==
    { <<>>,
      <<Transfer(Stdout(NoMax), Tmp(7)), Transfer(Stderr(NoMax), Tmp(7))>>,
      <<Transfer(Stdout(NoMax), Remote("r"))>>,
      <<Transfer(Stderr(NoMax), Local("a", FALSE))>>,
      <<Transfer(Local("a", FALSE), Tmp(7))>>,
      <<Transfer(Local("a", TRUE), Tmp(7))>>,
      <<Transfer(Local("c", TRUE), Tmp(7)), Transfer(Stdout(NoMax), Tmp(7))>>,
      <<Transfer(Tmp(7), Remote("r"))>>,
      <<Transfer(Data(DataX), Tmp(7))>>,
      <<Transfer(Stdout(NoMax), Remote("r")), Transfer(Remote("r"), Tmp(7))>> }

ReturnLists ==
    { <<>>,
      <<Tmp(7)>>,
      <<Tmp(7), Tmp(7)>>,
      <<Stdout(NoMax), Stderr(NoMax)>>,
      <<Local("a", FALSE)>>,
      <<Remote("r")>>,
      <<Stdin, Tmp(7)>> }

\* Execution (types.rs): the fields the Worker and the runners read
NoExecution ==
    [copy_in |-> <<>>, copy_out |-> <<>>, return_files |-> <<>>, die_on_error |-> FALSE]

(***************************************************************************)
(* The child's output as hakoniwa reports it: status.code is the code the  *)
(* result carries, status.exit_code is present only when the program       *)
(* itself exited (absent when a signal or the wall-time deadline ended     *)
(* it).  status.rusage and status.proc_pid_status are options: rusage is   *)
(* the user + system time in milliseconds, proc_pid_status the vmrss.      *)
(***************************************************************************)
ExitCode(some, v) == [some |-> some, val |-> v]
\* the figures of a child that was measured
UserSystemMs == 5
Vmrss == 9
Output(code, exit_code, out, err) ==
    [code |-> code, exit_code |-> exit_code, stdout |-> out, stderr |-> err,
     rusage |-> Some(UserSystemMs), proc_pid_status |-> Some(Vmrss)]
\* the same output when hakoniwa could not read one or both of the figures
Unmeasured(o, no_rusage, no_status) ==
    [o EXCEPT !.rusage = IF no_rusage THEN None ELSE @,
              !.proc_pid_status = IF no_status THEN None ELSE @]
ChildOutputs ==
    { Output(0, ExitCode(TRUE, 0), RawOut, <<>>),
      Unmeasured(Output(1, ExitCode(TRUE, 1), RawOut, RawErr), TRUE, FALSE),
      Unmeasured(Output(137, ExitCode(FALSE, 0), RawOut, RawErr), FALSE, TRUE) }
NoOutput == Output(0, ExitCode(FALSE, 0), <<>>, <<>>)

(***************************************************************************)
(* Every short stream: a child that exits 0 having printed the same bytes  *)
(* s on stdout and on stderr, for every s of at most MaxLen bytes over     *)
(* newline, the three whitespace bytes of autofix and one other byte; and  *)
(* the directives that take the streams, with every cap up to one past     *)
(* the longest normalised stream.                                          *)
(***************************************************************************)
StreamBytes == {NL, SP, TAB, CR, 111}
Streams == UNION {[1..k -> StreamBytes] : k \in 0..MaxLen}
Caps == (0..(MaxLen + 1)) \cup {NoMax}
StreamOutputs == {Output(0, ExitCode(TRUE, 0), s, s) : s \in Streams}
StreamCopyOuts ==
    {<<>>} \cup
    {<<Transfer(Stdout(m), Tmp(7)), Transfer(Stderr(m), Remote("r"))>> : m \in Caps}
StreamReturns == {<<Stdout(m), Stderr(m)>> : m \in Caps}

(***************************************************************************)
(* Results and messages.                                                   *)
(***************************************************************************)
ExecutionFile(n, c) == [name |-> n, content |-> c]
LocalName(n) == <<n>>
TmpName(id) == <<"tmp_", id>>
RemoteName(id) == <<"remote_", id>>

NoResult ==
    [kind |-> "none", exit_code |-> 0, time_used |-> 0, memory_used |-> 0,
     return_files |-> <<>>, message |-> ""]
Ok(code, time, memory, files) ==
    [NoResult EXCEPT !.kind = "ok", !.exit_code = code, !.time_used = time,
                     !.memory_used = memory, !.return_files = files]
Err(msg) == [NoResult EXCEPT !.kind = "err", !.message = msg]

\* a message handed to the response channel or the socket: the outcome (a
\* result or an error) of execution k; k = 0 for a failed initial file
Msg(k, r) == [exec |-> k, kind |-> r.kind]

VARIABLES
    mode,        \* which runner serves the request
    pc,          \* position of the request task
    files_left,  \* initial files not yet staged
    batch_left,  \* executions of the batch not yet started
    single,      \* the running execution came in an ExecutionMessage::Single
    started,     \* number of executions started so far
    cur,         \* the Execution being run
    idx,         \* 1-based position in the directive list being processed
    stdin,       \* execute's local `stdin`
    feeder,      \* the stdin producer thread: "writing" while it lives, else "none"
    child,       \* "none", "running", "waited"
    output,      \* what wait_with_output returned
    ret,         \* execute's local `return_files`
    result,      \* what execute returned
    tmp,         \* Worker.temp_files
    scratch,     \* files under the scratch root
    host,        \* host files named by caller-given paths
    blob,        \* the BlobStore
    root,        \* the scratch root directory exists
    child_ran,   \* a child has run in the scratch root
    cleanups,    \* calls of Worker::cleanup
    connected,   \* the caller still listens
    sent         \* messages delivered to the caller, in order

\* The Worker of a second request served at the same time (each request is
\* its own task with its own Worker: run.rs 87-90, 174-177).
VARIABLES
    o_pc,        \* "absent", "alive", "panicked", "done"
    o_path,      \* the scratch root its gen_random_id drew
    o_tmp,       \* its Worker.temp_files
    o_scratch,   \* files under its scratch root, when that is another directory
    o_root,      \* that other directory exists
    o_ops        \* directives it has applied

otherVars == <<o_pc, o_path, o_tmp, o_scratch, o_root, o_ops>>

vars ==
    <<mode, pc, files_left, batch_left, single, started, cur, idx, stdin, feeder,
      child, output, ret, result, tmp, scratch, host, blob, root, child_ran,
      cleanups, connected, sent, otherVars>>


(***************************************************************************)
(* Pieces of Worker::execute and of the runners.                           *)
(***************************************************************************)
\* files.rs get_file on Remote: the bytes under id (a missing key reads as empty)
BlobGet(b, id) == IF id \in DOMAIN b THEN b[id] ELSE <<>>

\* a slip: an id already stored keeps its old bytes (entry().or_insert())
store_temp_file_keeps_first(t, id, data) ==
    IF id \in DOMAIN t THEN t ELSE Insert(t, id, data)

\* worker.rs 74-76
store_temp_file(t, id, data) == Insert(t, id, data)

\* a slip: the lookup is dropped, every Tmp source reads as empty
TmpSourceEmpty(t, id) == <<>>

\* worker.rs 141-147: a Tmp source in copy_in
TmpSource(t, id) == IF id \notin DOMAIN t THEN <<>> ELSE t[id]

\* a slip: the entry is taken out of the map when it is read (remove())
AfterTmpSourceTaken(t, id) == Remove(t, id)

\* worker.rs 141-147: the map once a Tmp source was read: get() and clone()
\* leave it as it was
AfterTmpSource(t, id) == t

\* worker.rs 113-154: the source kinds copy_in resolves
CopyInSourceKinds == {"local", "data", "remote", "tmp"}
\* a slip: the catch-all arm is gone, a stream sink is taken and dropped
CopyInSinkKindsWithStreams == {"local", "tmp", "stdin", "stdout", "stderr"}

\* worker.rs 156-190: the sink kinds copy_in applies
CopyInSinkKinds == {"local", "tmp", "stdin"}
\* worker.rs 292-358
CopyOutSourceKinds == {"stdout", "stderr", "local"}
\* worker.rs 360-394
CopyOutSinkKinds == {"tmp", "remote", "local"}
\* worker.rs 400-506
ReturnKinds == {"local", "remote", "stderr", "stdout", "tmp"}

\* worker.rs 283-287 (autofix is absent from the request: unwrap_or(true))
NormalizedStdout(o) == autofix(o.stdout)

\* a slip: the None arm yields the figure of a measured child, not 0
time_used_assumed(o) == UserSystemMs

\* worker.rs 261-270 and 513-516: time_used, 0 when rusage is absent
time_used(o) == IF o.rusage.some THEN o.rusage.val ELSE 0

\* worker.rs 272-281 and 509-512: memory_used, 0 when proc_pid_status is absent
memory_used(o) == IF o.proc_pid_status.some THEN o.proc_pid_status.val ELSE 0

\* a slip: a Local source that cannot be opened is an error whatever its flag
MissingLocalAlwaysFails(executable) == TRUE

\* worker.rs 340-350: a Local source of copy_out that cannot be opened is an
\* error when it is marked executable, and reads as empty otherwise
MissingLocalFails(executable) == executable

\* worker.rs 289: the gate of copy_out
CopyOutAllowed(o) == (IF o.exit_code.some THEN o.exit_code.val ELSE 0) = 0

\* worker.rs 293-316 and 443-491: a Stdout / Stderr source
StreamSource(o, fp) ==
    IF fp.kind = "stdout" THEN Truncate(NormalizedStdout(o), fp.max_size)
    ELSE Truncate(o.stderr, fp.max_size)

\* the name of a returned file: worker.rs 424-427, 437-440, 449-465, 473-488, 495-498
ReturnName(fp) ==
    CASE fp.kind = "local" -> LocalName(fp.name)
      [] fp.kind = "remote" -> RemoteName(fp.name)
      [] fp.kind = "tmp" -> TmpName(fp.id)
      [] fp.kind = "stdout" -> <<"stdout">>
      [] OTHER -> <<"stderr">>

\* a slip: the file is put in front (insert(0, file))
PushReturnFileFront(files, file) == <<file>> \o files

\* worker.rs 424, 437, 449-463, 473-487, 495: return_files.push(file)
PushReturnFile(files, file) == Append(files, file)

\* a slip: the entry is read, not removed (get().cloned())
RemoveTmpKeeps(t, id) == t

\* worker.rs 494: temp_files.remove(&id)
RemoveTmp(t, id) == Remove(t, id)

\* a slip: the comparison is inverted, the batch stops on success
DieBreakOnZero(die_on_error, exit_code) == die_on_error /\ exit_code = 0

\* run.rs 116 / main.rs 107 / run.rs 228: the die_on_error break
DieBreak(die_on_error, exit_code) == die_on_error /\ exit_code # 0

\* run.rs 108-111: the exit code the SSE runner reads off an execution's outcome
SseExitCode(r) == IF r.kind = "ok" THEN r.exit_code ELSE 1

\* where a batch runner goes once an execution is dealt with and the batch goes on
LoopHead(left) ==
    IF left > 0 THEN "loop" ELSE IF mode = "ws" THEN "recv" ELSE "cleanup"

\* a slip: the failed file is skipped and the batch is entered (continue)
OnWriteErrorContinue(left) == LoopHead(left)

\* run.rs 93-101 / main.rs 72-81: where the runner goes when write_file
\* failed: it returns
OnWriteError(left) == "done"

(***************************************************************************)
(* Frames.                                                                 *)
(***************************************************************************)
reqVars == <<mode, files_left>>
storeVars == <<tmp, scratch, host, blob>>
execVars == <<cur, idx, stdin, feeder, child, output, ret, result>>
chanVars == <<connected, sent>>

\* an unwrap() on an Err or a None: the panic unwinds the request task, nothing
\* after it runs (Worker has no Drop); `where` is the loop that panicked
Panic(where) ==
    /\ pc' = "panicked"
    /\ result' = [NoResult EXCEPT !.kind = "panic", !.message = where]
    /\ UNCHANGED <<reqVars, otherVars, batch_left, single, started, storeVars, cur, idx, stdin, feeder,
                   child, output, ret, root, child_ran, cleanups, chanVars>>

\* a slip: an error undoes what the execution stored (a transaction that
\* is rolled back)
ReturnRollsBack(r) ==
    /\ pc' = "exec_ret"
    /\ result' = r
    /\ \E die \in BOOLEAN : cur' = [cur EXCEPT !.die_on_error = die]
    /\ tmp' = IF r.kind = "err" THEN EmptyMap ELSE tmp
    /\ scratch' = IF r.kind = "err" THEN EmptyMap ELSE scratch
    /\ UNCHANGED <<reqVars, otherVars, batch_left, single, started, host, blob, idx, stdin,
                   feeder, child, output, ret, root, child_ran, cleanups, chanVars>>

\* execute returns r to execute_execution / the runner
Return(r) ==
    /\ pc' = "exec_ret"
    /\ result' = r
    /\ \E die \in BOOLEAN : cur' = [cur EXCEPT !.die_on_error = die]
    /\ UNCHANGED <<reqVars, otherVars, batch_left, single, started, storeVars, idx, stdin, feeder,
                   child, output, ret, root, child_ran, cleanups, chanVars>>

\* the locals of execute and of one loop turn are dropped
DropExecution ==
    /\ cur' = NoExecution
    /\ idx' = 1
    /\ stdin' = None
    /\ feeder' = "none"
    /\ child' = "none"
    /\ output' = NoOutput
    /\ ret' = <<>>
    /\ result' = NoResult

\* worker.rs 526-530: remove_dir_all of the scratch root; its Result is
\* dropped (`let _ =`), so a removal that fails leaves the root in place.
\* What the service staged itself it can remove; once a child has run in
\* /box it may have left an entry the service may not unlink.
CleanupEffect ==
    /\ \E removed \in (IF child_ran THEN BOOLEAN ELSE {TRUE}) :
        /\ root' = (root /\ ~removed)
        /\ scratch' = IF removed THEN EmptyMap ELSE scratch
    /\ cleanups' = cleanups + 1
    /\ UNCHANGED child_ran

\* a slip: the message overtakes those already delivered
SendFirst(m) ==
    \E alive \in (IF connected THEN BOOLEAN ELSE {FALSE}) :
        /\ connected' = alive
        /\ sent' = IF alive THEN <<m>> \o sent ELSE sent

\* tx.send / socket.send of m: delivered unless the caller is gone
Send(m) ==
    \E alive \in (IF connected THEN BOOLEAN ELSE {FALSE}) :
        /\ connected' = alive
        /\ sent' = IF alive THEN Append(sent, m) ELSE sent

\* no second request is being served
OtherAbsent ==
    /\ o_pc = "absent"
    /\ o_path = ""
    /\ o_tmp = EmptyMap
    /\ o_scratch = EmptyMap
    /\ o_root = FALSE
    /\ o_ops = 0

(***************************************************************************)
(* Initial state: a request has arrived, nothing has run.                  *)
(***************************************************************************)
Init ==
    /\ mode \in Modes
    /\ pc = "new"
    /\ files_left \in (IF mode = "ws" THEN {0} ELSE 0..MaxFiles)
    /\ batch_left \in (IF mode = "ws" THEN {0} ELSE 0..MaxExecs)
    /\ single = FALSE
    /\ started = 0
    /\ cur = NoExecution
    /\ idx = 1
    /\ stdin = None
    /\ feeder = "none"
    /\ child = "none"
    /\ output = NoOutput
    /\ ret = <<>>
    /\ result = NoResult
    /\ tmp = EmptyMap
    /\ scratch = EmptyMap
    /\ host = EmptyMap
    /\ blob = EmptyMap
    /\ root = FALSE
    /\ child_ran = FALSE
    /\ cleanups = 0
    /\ connected = TRUE
    /\ sent = <<>>
    /\ OtherAbsent

(***************************************************************************)
(* Worker::new, called by each runner first.                               *)
(***************************************************************************)
NewWorker ==
    /\ pc = "new"
    /\ root' = TRUE
    /\ pc' = IF mode = "ws" THEN "recv"
             ELSE IF files_left > 0 THEN "files" ELSE LoopHead(batch_left)
    /\ UNCHANGED <<reqVars, otherVars, batch_left, single, started, storeVars, execVars,
                   child_ran, cleanups, chanVars>>

(***************************************************************************)
(* One turn of `for file in payload.files`: Worker::write_file, and the    *)
(* runner's error branch.                                                  *)
(***************************************************************************)
WriteFile ==
    /\ pc = "files"
    /\ files_left > 0
    /\ \E file \in InitialFiles, get_ok \in BOOLEAN, create_ok \in BOOLEAN :
        LET data == IF file.kind = "local" THEN file.content ELSE BlobGet(blob, file.id)
            ok == (file.kind = "remote" => get_ok) /\ create_ok /\ root
        IN IF ok
           THEN /\ scratch' = Insert(scratch, file.name, data)
                /\ files_left' = files_left - 1
                /\ pc' = IF files_left > 1 THEN "files" ELSE LoopHead(batch_left)
                /\ UNCHANGED <<root, child_ran, cleanups, chanVars>>
           ELSE /\ CleanupEffect
                /\ Send(Msg(0, Err("failed to write file")))
                /\ pc' = OnWriteError(batch_left)
                /\ UNCHANGED files_left
    /\ UNCHANGED <<mode, otherVars, batch_left, single, started, tmp, host, blob, execVars>>


(***************************************************************************)
(* Worker::execute, one step per directive.                                *)
(***************************************************************************)
\* the head of `for request in payload.executions` (and of the WebSocket batch
\* loop): the next Execution is taken and execute is entered
BeginExecution ==
    /\ pc = "loop"
    /\ batch_left > 0
    /\ \E list \in CopyInLists : cur' = [NoExecution EXCEPT !.copy_in = list]
    /\ batch_left' = batch_left - 1
    /\ started' = started + 1
    /\ pc' = "copy_in"
    /\ UNCHANGED <<reqVars, otherVars, single, storeVars, idx, stdin, feeder, child, output, ret, result,
                   root, child_ran, cleanups, chanVars>>

\* worker.rs 112-191: one turn of `for file in execution.copy_in`
CopyInStep ==
    /\ pc = "copy_in"
    /\ idx <= Len(cur.copy_in)
    /\ LET from == cur.copy_in[idx].from
           to == cur.copy_in[idx].to
           data == CASE from.kind = "local" ->
                          IF from.name \in DOMAIN host THEN host[from.name] ELSE <<>>
                     [] from.kind = "data" -> from.content
                     [] from.kind = "remote" -> BlobGet(blob, from.name)
                     [] OTHER -> TmpSource(tmp, from.id)
       IN \E get_ok \in BOOLEAN, create_ok \in BOOLEAN :
            IF from.kind \notin CopyInSourceKinds
            THEN Return(Err("Unsupported file path for copy_in"))
            ELSE IF \/ from.kind = "local" /\ from.name \notin DOMAIN host
                    \/ from.kind = "remote" /\ ~get_ok
            THEN Panic("copy_in")
            ELSE IF to.kind \notin CopyInSinkKinds
            THEN Return(Err("Unsupported file path for copy_in"))
            ELSE IF to.kind = "local" /\ (~create_ok \/ ~root)
            THEN Panic("copy_in")
            ELSE /\ scratch' = IF to.kind = "local"
                               THEN Insert(scratch, to.name, data) ELSE scratch
                 /\ LET read == IF from.kind = "tmp"
                                 THEN AfterTmpSource(tmp, from.id) ELSE tmp
                    IN tmp' = IF to.kind = "tmp"
                              THEN store_temp_file(read, to.id, data) ELSE read
                 /\ stdin' = IF to.kind = "stdin" THEN Some(data) ELSE stdin
                 /\ UNCHANGED feeder
                 /\ idx' = idx + 1
                 /\ UNCHANGED <<pc, reqVars, otherVars, batch_left, single, started, host, blob,
                                cur, child, output, ret, result, root, child_ran, cleanups,
                                chanVars>>

\* a slip: the child is spawned before the copy_in loop has run
SpawnBeforeCopyIn ==
    /\ pc = "copy_in"
    /\ child = "none"
    /\ child' = "running"
    /\ UNCHANGED <<pc, reqVars, otherVars, batch_left, single, started, storeVars, cur, idx, stdin, feeder,
                   output, ret, result, root, child_ran, cleanups, chanVars>>

\* worker.rs 193-245: rlimits, the command, cmd.spawn(); the queued stdin
\* moves into the producer thread
Spawn ==
    /\ pc = "copy_in"
    /\ idx > Len(cur.copy_in)
    /\ \E spawn_ok \in BOOLEAN :
        IF spawn_ok
        THEN /\ child' = "running"
             /\ child_ran' = TRUE
             /\ pc' = "wait"
             /\ stdin' = None
             /\ feeder' = IF stdin.some THEN "writing" ELSE "none"
             /\ cur' = [cur EXCEPT !.copy_in = <<>>]
             /\ idx' = 1
             /\ UNCHANGED <<reqVars, otherVars, batch_left, single, started, storeVars,
                            output, ret, result, root, cleanups, chanVars>>
        ELSE Return(Err("Failed to spawn process"))

\* a slip: a failed write of the producer ends the execution with an error
\* (return RunOutput::error("Failed to write to stdin"))
FeedStdinFatal ==
    /\ feeder = "writing"
    /\ feeder' = "none"
    /\ \E wrote \in BOOLEAN :
        /\ pc' = IF wrote THEN pc ELSE "exec_ret"
        /\ result' = IF wrote THEN result ELSE Err("Failed to write to stdin")
    /\ UNCHANGED <<reqVars, otherVars, batch_left, single, started, storeVars, cur, idx,
                   stdin, child, output, ret, root, child_ran, cleanups, chanVars>>

\* worker.rs 231-239: the producer thread, on its own schedule: write_all
\* ends, written through or failed (a failure is logged, nothing more), the
\* pipe is dropped and the thread is over.  While the child neither reads
\* nor dies the thread is blocked in write_all and takes no step.
FeedStdin ==
    /\ feeder = "writing"
    /\ feeder' = "none"
    /\ UNCHANGED <<reqVars, otherVars, pc, batch_left, single, started, storeVars, cur,
                   idx, stdin, child, output, ret, result, root, child_ran, cleanups,
                   chanVars>>

\* worker.rs 247-289: wait_with_output, the normalisation of stdout and the
\* gate of copy_out
WaitWith(outputs, copy_outs, returns) ==
    /\ pc = "wait"
    /\ \E wait_ok \in BOOLEAN :
        IF wait_ok
        THEN /\ \E o \in outputs, co \in copy_outs, rf \in returns :
                  /\ output' = o
                  /\ cur' = [cur EXCEPT !.copy_out = co, !.return_files = rf]
                  /\ pc' = IF CopyOutAllowed(o) /\ Len(co) > 0
                           THEN "copy_out" ELSE "return_files"
             /\ child' = "waited"
             /\ UNCHANGED <<reqVars, otherVars, batch_left, single, started, storeVars, idx,
                            stdin, feeder, ret, result, root, child_ran, cleanups, chanVars>>
        ELSE Return(Err("Failed to wait for process output"))

\* the wait of an execution of the request catalogue
Wait == WaitWith(ChildOutputs, CopyOutLists, ReturnLists)

\* the wait of an execution whose child prints any short stream
WaitStreams == WaitWith(StreamOutputs, StreamCopyOuts, StreamReturns)

\* worker.rs 291-395: one turn of `for file in execution.copy_out`
CopyOutStep ==
    /\ pc = "copy_out"
    /\ idx <= Len(cur.copy_out)
    /\ LET from == cur.copy_out[idx].from
           to == cur.copy_out[idx].to
           data == CASE from.kind = "local" ->
                          IF from.name \in DOMAIN scratch THEN scratch[from.name] ELSE <<>>
                     [] OTHER -> StreamSource(output, from)
       IN \E io_ok \in BOOLEAN :
            IF from.kind \notin CopyOutSourceKinds
            THEN Return(Err("Unsupported file path for copy_out"))
            ELSE IF from.kind = "local" /\ from.name \notin DOMAIN scratch
                    /\ MissingLocalFails(from.executable)
            THEN Return(Err("failed to open file for copy_out"))
            ELSE IF to.kind \notin CopyOutSinkKinds
            THEN Return(Err("Unsupported file path for copy_out"))
            ELSE IF to.kind \in {"remote", "local"} /\ ~io_ok
            THEN Panic("copy_out")
            ELSE /\ tmp' = IF to.kind = "tmp"
                           THEN store_temp_file(tmp, to.id, data) ELSE tmp
                 /\ blob' = IF to.kind = "remote"
                            THEN Insert(blob, to.name, data) ELSE blob
                 /\ host' = IF to.kind = "local"
                            THEN Insert(host, to.name, data) ELSE host
                 /\ idx' = IF idx = Len(cur.copy_out) THEN 1 ELSE idx + 1
                 /\ pc' = IF idx = Len(cur.copy_out) THEN "return_files" ELSE "copy_out"
                 /\ UNCHANGED <<reqVars, otherVars, batch_left, single, started, scratch, cur,
                                stdin, feeder, child, output, ret, result, root, child_ran, cleanups,
                                chanVars>>

\* worker.rs 398-507: one turn of `for file in execution.return_files`
ReturnStep ==
    /\ pc = "return_files"
    /\ idx <= Len(cur.return_files)
    /\ LET fp == cur.return_files[idx]
           data == CASE fp.kind = "local" ->
                          IF fp.name \in DOMAIN scratch THEN scratch[fp.name] ELSE <<>>
                     [] fp.kind = "remote" -> BlobGet(blob, fp.name)
                     [] fp.kind = "tmp" -> IF fp.id \in DOMAIN tmp THEN tmp[fp.id] ELSE <<>>
                     [] OTHER -> StreamSource(output, fp)
       IN \E get_ok \in BOOLEAN :
            IF fp.kind \notin ReturnKinds
            THEN Return(Err("Unsupported file path for return_files"))
            ELSE IF \/ fp.kind = "local" /\ fp.name \notin DOMAIN scratch
                    \/ fp.kind = "remote" /\ ~get_ok
                    \/ fp.kind = "tmp" /\ fp.id \notin DOMAIN tmp
            THEN Panic("return_files")
            ELSE /\ ret' = PushReturnFile(ret, ExecutionFile(ReturnName(fp), data))
                 /\ tmp' = IF fp.kind = "tmp" THEN RemoveTmp(tmp, fp.id) ELSE tmp
                 /\ idx' = idx + 1
                 /\ UNCHANGED <<pc, reqVars, otherVars, batch_left, single, started, scratch, host,
                                blob, cur, stdin, feeder, child, output, result, root, child_ran, cleanups,
                                chanVars>>

\* a slip: return_files is suppressed, like copy_out, when the child failed
ReturnOkSkipsOnFailure ==
    /\ pc = "return_files"
    /\ idx > Len(cur.return_files) \/ output.code # 0
    /\ Return(Ok(output.code, time_used(output), memory_used(output), ret))

\* worker.rs 509-523: the result is assembled, exit_code = status.code
ReturnOk ==
    /\ pc = "return_files"
    /\ idx > Len(cur.return_files)
    /\ Return(Ok(output.code, time_used(output), memory_used(output), ret))

(***************************************************************************)
(* The runners: what each does with the outcome of an execution.           *)
(***************************************************************************)
\* run.rs 49-76 and 107-118: the SSE runner of handlers/run.rs
HandleSse ==
    /\ pc = "exec_ret"
    /\ mode = "sse"
    /\ IF result.kind = "ok" THEN Send(Msg(started, result)) ELSE UNCHANGED chanVars
    /\ pc' = IF DieBreak(cur.die_on_error, SseExitCode(result))
             THEN "cleanup" ELSE LoopHead(batch_left)
    /\ DropExecution
    /\ UNCHANGED <<reqVars, otherVars, batch_left, single, started, storeVars, root, child_ran, cleanups>>

\* main.rs 86-109: the SSE runner of main.rs
HandleMain ==
    /\ pc = "exec_ret"
    /\ mode = "main"
    /\ Send(Msg(started, result))
    /\ IF result.kind = "err"
       THEN /\ CleanupEffect
            /\ pc' = "done"
       ELSE /\ pc' = IF DieBreak(cur.die_on_error, result.exit_code)
                     THEN "cleanup" ELSE LoopHead(batch_left)
            /\ UNCHANGED <<scratch, root, child_ran, cleanups>>
    /\ DropExecution
    /\ UNCHANGED <<reqVars, otherVars, batch_left, single, started, tmp, host, blob>>

\* run.rs 212-246: the batch loop of the WebSocket handler
HandleWsBatch ==
    /\ pc = "exec_ret"
    /\ mode = "ws"
    /\ ~single
    /\ Send(Msg(started, result))
    /\ IF \/ ~connected'
          \/ result.kind = "ok" /\ DieBreak(cur.die_on_error, result.exit_code)
       THEN /\ batch_left' = 0
            /\ pc' = "recv"
       ELSE /\ pc' = LoopHead(batch_left)
            /\ UNCHANGED batch_left
    /\ DropExecution
    /\ UNCHANGED <<reqVars, otherVars, single, started, storeVars, root, child_ran, cleanups>>

\* run.rs 190-208: a single execution over the WebSocket
HandleWsSingle ==
    /\ pc = "exec_ret"
    /\ mode = "ws"
    /\ single
    /\ Send(Msg(started, result))
    /\ pc' = IF connected' THEN "recv" ELSE "cleanup"
    /\ DropExecution
    /\ UNCHANGED <<reqVars, otherVars, batch_left, single, started, storeVars, root, child_ran, cleanups>>

\* run.rs 179-189: socket.recv() yields a message: one that does not parse
\* (the loop continues), one whose to_text() fails (the unwrap panics), a
\* Single or a Batch
WsRecvMessage ==
    /\ pc = "recv"
    /\ connected
    /\ started < MaxExecs
    /\ \E kind \in {"invalid", "binary", "single", "batch"}, n \in 0..(MaxExecs - started) :
        IF kind = "binary"
        THEN Panic("recv")
        ELSE /\ pc' = CASE kind = "invalid" -> "recv"
                        [] kind = "single" -> "loop"
                        [] OTHER -> LoopHead(n)
             /\ batch_left' = CASE kind = "single" -> 1
                                [] kind = "batch" -> n
                                [] OTHER -> batch_left
             /\ single' = IF kind = "invalid" THEN single ELSE kind = "single"
             /\ UNCHANGED <<reqVars, otherVars, started, storeVars, execVars, root, child_ran, cleanups,
                            chanVars>>

\* run.rs 179, 250-255: the stream has ended or failed; the loop is left
WsRecvClosed ==
    /\ pc = "recv"
    /\ pc' = "cleanup"
    /\ connected' = FALSE
    /\ UNCHANGED <<reqVars, otherVars, batch_left, single, started, storeVars, execVars, root,
                   child_ran, cleanups, sent>>

\* run.rs 121 / main.rs 112 / run.rs 257: worker.cleanup() at the end of the runner
Cleanup ==
    /\ pc = "cleanup"
    /\ CleanupEffect
    /\ pc' = "done"
    /\ UNCHANGED <<reqVars, otherVars, batch_left, single, started, tmp, host, blob, execVars,
                   chanVars>>

Next ==
    \/ NewWorker
    \/ WriteFile
    \/ BeginExecution
    \/ CopyInStep
    \/ Spawn
    \/ FeedStdin
    \/ Wait
    \/ CopyOutStep
    \/ ReturnStep
    \/ ReturnOk
    \/ HandleSse
    \/ HandleMain
    \/ HandleWsBatch
    \/ HandleWsSingle
    \/ WsRecvMessage
    \/ WsRecvClosed
    \/ Cleanup

Spec == Init /\ [][Next]_vars

\* The request task is a spawned tokio task (run.rs 134-136; the WebSocket
\* handler is the upgraded connection's task): it keeps being scheduled
\* whether or not anyone listens, and each of its awaits completes (the wait
\* for the child is bounded by wall_time_limit, a recv on a closed socket
\* returns).  A task that panicked has no further step.
SpecLive == Init /\ [][Next]_vars /\ WF_vars(Next)

(***************************************************************************)
(* The stream pipeline alone: one execution of an SSE request is at its    *)
(* wait (run.rs 105, worker.rs 247); the child prints any short stream and *)
(* the execution's copy_out and return_files take stdout and stderr under  *)
(* every cap.                                                              *)
(***************************************************************************)
InitStreams ==
    /\ mode = "sse"
    /\ pc = "wait"
    /\ files_left = 0
    /\ batch_left = 0
    /\ single = FALSE
    /\ started = 1
    /\ cur = NoExecution
    /\ idx = 1
    /\ stdin = None
    /\ feeder = "none"
    /\ child = "running"
    /\ output = NoOutput
    /\ ret = <<>>
    /\ result = NoResult
    /\ tmp = EmptyMap
    /\ scratch = EmptyMap
    /\ host = EmptyMap
    /\ blob = EmptyMap
    /\ root = TRUE
    /\ child_ran = TRUE
    /\ cleanups = 0
    /\ connected = TRUE
    /\ sent = <<>>
    /\ OtherAbsent

NextStreams ==
    \/ WaitStreams
    \/ CopyOutStep
    \/ ReturnStep
    \/ ReturnOk
    \/ HandleSse
    \/ Cleanup

SpecStreams == InitStreams /\ [][NextStreams]_vars

(***************************************************************************)
(* Two requests at once.  The first is an SSE request of one execution,    *)
(* modelled as above; the second has a Worker of its own, which applies a  *)
(* few directives.  The scratch root of a Worker is base_code_path joined  *)
(* with gen_random_id(10), and nothing checks that the id is fresh:        *)
(* create_dir_all accepts a directory that exists.                         *)
(***************************************************************************)
\* the root of the first Worker, and another directory
FirstPath == "p1"
Paths == {"p1", "p2"}

\* a host path a caller may name: in the service's working directory, or
\* under the first Worker's scratch root
HostFile(dir, name) == [dir |-> dir, name |-> name]
OtherSinkPaths == {HostFile("", "a"), HostFile(FirstPath, "a")}

\* the directives the second Worker may apply, one at a time
OtherCopyIns ==
    { Transfer(Data(DataX), Tmp(7)),
      Transfer(Data(DataX), Local("a", FALSE)),
      Transfer(Tmp(7), Tmp(8)) }

\* a slip: temp_files is one map of the process (a static), not a field
StoreInShared(own, others, id, data) ==
    [own |-> store_temp_file(own, id, data), others |-> store_temp_file(others, id, data)]

\* worker.rs 18-23, 66-76: self.temp_files is a field of the Worker, made by
\* HashMap::new() in Worker::new: a store changes the Worker's own map
StoreIn(own, others, id, data) ==
    [own |-> store_temp_file(own, id, data), others |-> others]

\* the second Worker's directory is the first Worker's
SharesRoot == o_path = FirstPath

firstVars ==
    <<mode, pc, files_left, batch_left, single, started, cur, idx, stdin, feeder, child,
      output, ret, result, child_ran, cleanups, connected, sent>>

\* the second request's task dies on an unwrap
OtherPanic ==
    /\ o_pc' = "panicked"
    /\ UNCHANGED <<o_path, o_tmp, o_scratch, o_root, tmp, scratch, root, host, blob>>

\* run.rs 87-90 / worker.rs 32-34: the second request creates its Worker
OtherNew ==
    /\ o_pc = "absent"
    /\ \E id \in Paths :
        /\ o_path' = id
        /\ root' = (root \/ id = FirstPath)
        /\ o_root' = (o_root \/ id # FirstPath)
    /\ o_pc' = "alive"
    /\ UNCHANGED <<firstVars, o_tmp, o_scratch, o_ops, tmp, scratch, host, blob>>

\* worker.rs 112-191: the second Worker applies one copy_in directive
OtherCopyIn ==
    /\ o_pc = "alive"
    /\ o_ops < MaxOtherOps
    /\ o_ops' = o_ops + 1
    /\ \E d \in OtherCopyIns :
        LET data == IF d.from.kind = "data" THEN d.from.content
                    ELSE TmpSource(o_tmp, d.from.id)
            stored == StoreIn(o_tmp, tmp, d.to.id, data)
            dir_exists == IF SharesRoot THEN root ELSE o_root
        IN IF d.to.kind = "tmp"
           THEN /\ o_tmp' = stored.own
                /\ tmp' = stored.others
                /\ UNCHANGED <<o_pc, o_path, o_scratch, o_root, scratch, root, host, blob>>
           ELSE IF ~dir_exists
           THEN OtherPanic /\ UNCHANGED tmp
           ELSE /\ scratch' = IF SharesRoot
                              THEN Insert(scratch, d.to.name, data) ELSE scratch
                /\ o_scratch' = IF SharesRoot
                                THEN o_scratch ELSE Insert(o_scratch, d.to.name, data)
                /\ UNCHANGED <<o_pc, o_path, o_tmp, o_root, tmp, root, host, blob>>
    /\ UNCHANGED firstVars

\* worker.rs 371-373: the second Worker applies a copy_out directive whose
\* sink is Local{name}: fs::File::create(&name), the path as the caller gave it
OtherCopyOutLocal ==
    /\ o_pc = "alive"
    /\ o_ops < MaxOtherOps
    /\ o_ops' = o_ops + 1
    /\ \E path \in OtherSinkPaths :
        IF path.dir = ""
        THEN /\ host' = Insert(host, path.name, RawErr)
             /\ UNCHANGED <<o_pc, o_path, o_tmp, o_scratch, o_root, tmp, scratch, root, blob>>
        ELSE IF ~root
        THEN OtherPanic /\ UNCHANGED tmp
        ELSE /\ scratch' = Insert(scratch, path.name, RawErr)
             /\ UNCHANGED <<o_pc, o_path, o_tmp, o_scratch, o_root, tmp, root, host, blob>>
    /\ UNCHANGED firstVars

\* worker.rs 493-499: the second Worker returns Tmp{7}
OtherReturnTmp ==
    /\ o_pc = "alive"
    /\ o_ops < MaxOtherOps
    /\ o_ops' = o_ops + 1
    /\ IF 7 \in DOMAIN o_tmp
       THEN /\ o_tmp' = RemoveTmp(o_tmp, 7)
            /\ UNCHANGED <<o_pc, o_path, o_scratch, o_root, tmp, scratch, root, host, blob>>
       ELSE OtherPanic /\ UNCHANGED tmp
    /\ UNCHANGED firstVars

\* worker.rs 526-530: the second request's runner calls cleanup
OtherCleanup ==
    /\ o_pc = "alive"
    /\ o_pc' = "done"
    /\ \E removed \in BOOLEAN :
        /\ root' = IF SharesRoot THEN root /\ ~removed ELSE root
        /\ scratch' = IF SharesRoot /\ removed THEN EmptyMap ELSE scratch
        /\ o_root' = IF SharesRoot THEN o_root ELSE o_root /\ ~removed
        /\ o_scratch' = IF ~SharesRoot /\ removed THEN EmptyMap ELSE o_scratch
    /\ UNCHANGED <<firstVars, o_path, o_tmp, o_ops, tmp, host, blob>>

\* the first request's execution, with a short catalogue for what follows the wait
WaitPair ==
    WaitWith({Output(0, ExitCode(TRUE, 0), RawOut, RawErr)},
             {<<>>, <<Transfer(Stdout(NoMax), Tmp(7))>>},
             {<<Tmp(7)>>, <<Local("a", FALSE)>>})

InitPair ==
    /\ Init
    /\ mode = "sse"
    /\ files_left = 0
    /\ batch_left = 1

NextPair ==
    \/ NewWorker
    \/ BeginExecution
    \/ CopyInStep
    \/ Spawn
    \/ FeedStdin
    \/ WaitPair
    \/ CopyOutStep
    \/ ReturnStep
    \/ ReturnOk
    \/ HandleSse
    \/ Cleanup
    \/ OtherNew
    \/ OtherCopyIn
    \/ OtherCopyOutLocal
    \/ OtherReturnTmp
    \/ OtherCleanup

SpecPair == InitPair /\ [][NextPair]_vars


(***************************************************************************)
(* Properties.                                                             *)
(***************************************************************************)
\* the request task is inside Worker::execute
InExecute == pc \in {"copy_in", "wait", "copy_out", "return_files"}

\* two sinks name the same Tmp id, the same Local name or the same Remote id
SameSink(a, b) == a.kind = b.kind /\ a.name = b.name /\ a.id = b.id

\* no directive after the j-th of the list writes the sink the j-th writes
LastWriter(list, j) == \A k \in (j + 1)..Len(list) : ~SameSink(list[k].to, list[j].to)

\* the messages of s are for executions 1..k, in the order of the executions
InOrderUpTo(s, k) ==
    \A i \in 1..Len(s) :
        /\ s[i].exec \in 1..k
        /\ i < Len(s) => s[i].exec < s[i + 1].exec

\* C1: once the wait has returned a status whose code (the exit_code of the
\* result) is not 0, no step of the execution stores a Tmp entry, puts a blob
\* or writes a host file: copy_out has no effect.
C1_NoCopyOutOnNonZeroExit ==
    [][(child = "waited" /\ output.code # 0) =>
          /\ blob' = blob
          /\ host' = host
          /\ \A id \in DOMAIN tmp' : id \in DOMAIN tmp /\ tmp'[id] = tmp[id]]_vars

\* C2: whenever the request task has ended, on whatever path, cleanup was
\* called on its Worker.
C2_CleanupOnEveryExit == pc \in {"done", "panicked"} => cleanups >= 1

\* C3: when an execution has returned an ExecutionError, the runner does not
\* go on to the next execution of the batch, whatever die_on_error says.
C3_ErrorEndsBatch == [][(pc = "exec_ret" /\ result.kind = "err") => pc' # "loop"]_vars

\* C4: when execution k has returned Ok with a non-zero exit code and its
\* die_on_error is set, the runner leaves the batch: no further execution
\* starts, the result of k is handed to the caller, and what the caller has
\* received are results of executions 1..k in order; with die_on_error unset
\* (and the caller still there) the batch goes on with execution k + 1.
C4_DieOnErrorStopsBatch ==
    [][/\ (pc = "exec_ret" /\ result.kind = "ok" /\ pc' # "exec_ret") =>
            IF result.exit_code # 0 /\ cur.die_on_error
            THEN /\ pc' # "loop"
                 /\ mode # "ws" => pc' = "cleanup"
                 /\ mode = "ws" => batch_left' = 0
                 /\ started' = started
                 /\ connected' => sent' = Append(sent, Msg(started, result))
                 /\ InOrderUpTo(sent', started)
            ELSE (batch_left > 0 /\ (mode = "ws" => connected')) => pc' = "loop"
       /\ pc \in {"cleanup", "done"} => (started' = started /\ sent' = sent)]_vars

C4_Witness ==
    /\ mode = "sse"
    /\ pc = "cleanup"
    /\ batch_left > 0
    /\ started = 1
    /\ sent = <<[exec |-> 1, kind |-> "ok"]>>

\* C5 as claimed: once the child was spawned and waited without error, every
\* entry of return_files has been processed when execute returns.
C5_ReturnFilesAfterAnyWait ==
    (pc = "exec_ret" /\ child = "waited") => Len(ret) = Len(cur.return_files)

\* C5, amended: when execute returns Ok, every entry of return_files has been
\* processed, whatever the exit code, also when copy_out was skipped.
C5_ReturnFilesDrainedOnOk ==
    (pc = "exec_ret" /\ result.kind = "ok") =>
        /\ idx = Len(cur.return_files) + 1
        /\ Len(ret) = Len(cur.return_files)

C5_Witness ==
    /\ pc = "exec_ret"
    /\ result.kind = "ok"
    /\ result.exit_code # 0
    /\ ~CopyOutAllowed(output)
    /\ cur.copy_out # <<>>
    /\ Len(cur.return_files) = 2
    /\ Len(ret) = 2

\* C6: inside one execute call, scratch is written and stdin queued only
\* before the child is spawned, a Tmp entry is never stored or removed while
\* the child runs, blobs, host files and returned files are produced only
\* after the wait has returned, the child is spawned only when the whole
\* copy_in list has been applied, and a copy_in error leaves no child.
C6_PhasesOrdered ==
    [][InExecute =>
          /\ (scratch' # scratch \/ (stdin'.some /\ stdin' # stdin)) =>
                (child = "none" /\ idx <= Len(cur.copy_in))
          /\ tmp' # tmp =>
                \/ child = "none" /\ idx <= Len(cur.copy_in)
                \/ child = "waited"
          /\ (blob' # blob \/ host' # host \/ ret' # ret) => child = "waited"
          /\ (child = "none" /\ child' = "running") => idx > Len(cur.copy_in)
          /\ (result'.kind = "err"
                /\ result'.message = "Unsupported file path for copy_in") =>
                child' = "none"]_vars

C6_Witness ==
    /\ pc = "exec_ret"
    /\ result.kind = "ok"
    /\ started = 1
    /\ child = "waited"
    /\ 7 \in DOMAIN tmp
    /\ tmp[7] = DataY
    /\ "r" \in DOMAIN blob
    /\ Len(ret) = 2

\* C7: when a directive list has been applied, a Tmp id or Local name (or
\* Remote id, or host file) written by several directives of the list holds
\* the bytes of the last of them.
C7_LaterDirectiveWins ==
    /\ (pc = "copy_in" /\ idx > Len(cur.copy_in)) =>
          \A j \in 1..Len(cur.copy_in) :
              LET d == cur.copy_in[j]
              IN (d.from.kind = "data" /\ LastWriter(cur.copy_in, j)) =>
                    /\ d.to.kind = "tmp" =>
                          (d.to.id \in DOMAIN tmp /\ tmp[d.to.id] = d.from.content)
                    /\ d.to.kind = "local" =>
                          (d.to.name \in DOMAIN scratch
                             /\ scratch[d.to.name] = d.from.content)
    /\ (pc = "return_files" /\ idx = 1 /\ CopyOutAllowed(output)) =>
          \A j \in 1..Len(cur.copy_out) :
              LET d == cur.copy_out[j]
              IN (d.from.kind \in {"stdout", "stderr"} /\ LastWriter(cur.copy_out, j)) =>
                    /\ d.to.kind = "tmp" =>
                          (d.to.id \in DOMAIN tmp
                             /\ tmp[d.to.id] = StreamSource(output, d.from))
                    /\ d.to.kind = "remote" =>
                          (d.to.name \in DOMAIN blob
                             /\ blob[d.to.name] = StreamSource(output, d.from))
                    /\ d.to.kind = "local" =>
                          (d.to.name \in DOMAIN host
                             /\ host[d.to.name] = StreamSource(output, d.from))

C7_Witness ==
    /\ pc = "copy_in"
    /\ idx = 3
    /\ Len(cur.copy_in) = 2
    /\ cur.copy_in[1].to = Tmp(7)
    /\ cur.copy_in[2].to = Tmp(7)
    /\ cur.copy_in[1].from.content # cur.copy_in[2].from.content
    /\ tmp[7] = cur.copy_in[2].from.content

\* C8: when execute returns Ok, the result's return_files has one entry per
\* requested path, in the order of the request, each with the name of its
\* path and (for a stream, a scratch file or a blob) its bytes.
C8_ReturnFilesInOrder ==
    (pc = "exec_ret" /\ result.kind = "ok") =>
        /\ Len(result.return_files) = Len(cur.return_files)
        /\ \A i \in 1..Len(cur.return_files) :
              LET fp == cur.return_files[i]
                  f == result.return_files[i]
              IN /\ fp.kind = "local" =>
                       (f.name = <<fp.name>> /\ f.content = scratch[fp.name])
                 /\ fp.kind = "remote" =>
                       (f.name = <<"remote_", fp.name>> /\ f.content = BlobGet(blob, fp.name))
                 /\ fp.kind = "tmp" => f.name = <<"tmp_", fp.id>>
                 /\ fp.kind = "stdout" =>
                       (f.name = <<"stdout">>
                          /\ f.content = Truncate(autofix(output.stdout), fp.max_size))
                 /\ fp.kind = "stderr" =>
                       (f.name = <<"stderr">>
                          /\ f.content = Truncate(output.stderr, fp.max_size))

C8_Witness ==
    /\ pc = "exec_ret"
    /\ result.kind = "ok"
    /\ cur.return_files = <<Stdout(NoMax), Stderr(NoMax)>>
    /\ result.return_files[1].content # result.return_files[2].content

\* C9 as claimed: when execute has returned, no Tmp id named by the
\* execution's return_files is a key of the tmp map.
C9_ReturnedTmpAbsent ==
    pc = "exec_ret" =>
        \A i \in 1..Len(cur.return_files) :
            cur.return_files[i].kind = "tmp" => cur.return_files[i].id \notin DOMAIN tmp

\* C9, amended: when execute has returned Ok, no Tmp id named by the
\* execution's return_files is a key of the tmp map.
C9_ReturnedTmpAbsentOnOk ==
    (pc = "exec_ret" /\ result.kind = "ok") =>
        \A i \in 1..Len(cur.return_files) :
            cur.return_files[i].kind = "tmp" => cur.return_files[i].id \notin DOMAIN tmp

C9_Witness ==
    /\ pc = "exec_ret"
    /\ result.kind = "ok"
    /\ cur.return_files = <<Tmp(7)>>
    /\ result.return_files[1].content = DataY
    /\ 7 \notin DOMAIN tmp

\* C10: a Tmp id that is absent from the tmp map when return_files resolves
\* it does not make the execution fail.
C10_MissingTmpDoesNotFail ==
    ~ /\ pc = "panicked"
      /\ result.message = "return_files"
      /\ cur.return_files[idx].kind = "tmp"
      /\ cur.return_files[idx].id \notin DOMAIN tmp


\* C11: a BlobStore or file operation that fails while execute processes a
\* directive of copy_in, copy_out or return_files makes execute return an
\* ExecutionError: no such step ends the request task.  (The Tmp entries of
\* return_files touch neither the BlobStore nor a file and are left out.)
C11_IoFailureIsErrorValue ==
    [][(/\ InExecute
        /\ ~(/\ pc = "return_files"
             /\ idx <= Len(cur.return_files)
             /\ cur.return_files[idx].kind = "tmp")) => pc' # "panicked"]_vars


\* C12: Local{name} is the scratch file `name` in every directive position:
\* a copy_out directive that writes a stream to the sink Local{name} leaves
\* those bytes in the scratch file, and a copy_in directive that reads the
\* source Local{name} obtains the bytes of the scratch file (which an earlier
\* execution of the batch wrote).
C12_LocalIsOneScratchFile ==
    [][/\ (/\ pc = "copy_out"
           /\ idx <= Len(cur.copy_out)
           /\ cur.copy_out[idx].to.kind = "local"
           /\ cur.copy_out[idx].from.kind \in {"stdout", "stderr"}
           /\ pc' \in {"copy_out", "return_files"}) =>
             /\ cur.copy_out[idx].to.name \in DOMAIN scratch'
             /\ scratch'[cur.copy_out[idx].to.name] =
                    StreamSource(output, cur.copy_out[idx].from)
       /\ (/\ pc = "copy_in"
           /\ idx <= Len(cur.copy_in)
           /\ cur.copy_in[idx].from.kind = "local"
           /\ cur.copy_in[idx].from.name \in DOMAIN scratch
           /\ cur.copy_in[idx].to.kind = "tmp"
           /\ idx' = idx + 1) =>
             tmp'[cur.copy_in[idx].to.id] = scratch[cur.copy_in[idx].from.name]]_vars


\* the bytes the last put of this execution's copy_out left under Remote id,
\* given that the first n directives of copy_out have been applied
PutBy(n, id) ==
    LET js == {j \in 1..n : cur.copy_out[j].to.kind = "remote"
                              /\ cur.copy_out[j].to.name = id}
        last == CHOOSE j \in js : \A k \in js : k <= j
    IN StreamSource(output, cur.copy_out[last].from)

HasPut(n, id) ==
    \E j \in 1..n : /\ cur.copy_out[j].to.kind = "remote"
                    /\ cur.copy_out[j].to.name = id
                    /\ cur.copy_out[j].from.kind \in {"stdout", "stderr"}

\* C13: once a copy_out directive of the execution has put bytes B under
\* Remote{id}, a later copy_out directive whose source is Remote{id} is
\* applied and hands B to its sink, and a return_files entry Remote{id}
\* that is resolved returns B.
C13_RemoteRoundTrip ==
    [][/\ (/\ pc = "copy_out"
           /\ idx <= Len(cur.copy_out)
           /\ cur.copy_out[idx].from.kind = "remote"
           /\ HasPut(idx - 1, cur.copy_out[idx].from.name)) =>
             /\ pc' \in {"copy_out", "return_files", "panicked"}
             /\ (pc' # "panicked" /\ cur.copy_out[idx].to.kind = "tmp") =>
                   tmp'[cur.copy_out[idx].to.id] =
                       PutBy(idx - 1, cur.copy_out[idx].from.name)
       /\ (/\ pc = "return_files"
           /\ idx <= Len(cur.return_files)
           /\ cur.return_files[idx].kind = "remote"
           /\ CopyOutAllowed(output)
           /\ HasPut(Len(cur.copy_out), cur.return_files[idx].name)
           /\ Len(ret') = Len(ret) + 1) =>
             ret'[Len(ret')].content =
                 PutBy(Len(cur.copy_out), cur.return_files[idx].name)]_vars


\* C14: when the copy_in list has been applied, and it held a directive
\* Data -> Tmp{id} followed by a directive Tmp{id} -> Stdin (the id not
\* rewritten in between, stdin not queued again after), the bytes queued for
\* the child's stdin are the bytes of the Data source.
C14_TmpToStdinRoundTrip ==
    (pc = "copy_in" /\ idx > Len(cur.copy_in)) =>
        \A j \in 1..Len(cur.copy_in), k \in 1..Len(cur.copy_in) :
            (/\ j < k
             /\ cur.copy_in[j].from.kind = "data"
             /\ cur.copy_in[j].to.kind = "tmp"
             /\ cur.copy_in[k].from.kind = "tmp"
             /\ cur.copy_in[k].from.id = cur.copy_in[j].to.id
             /\ cur.copy_in[k].to.kind = "stdin"
             /\ \A m \in (j + 1)..(k - 1) : ~SameSink(cur.copy_in[m].to, cur.copy_in[j].to)
             /\ \A m \in (k + 1)..Len(cur.copy_in) : cur.copy_in[m].to.kind # "stdin") =>
                stdin = Some(cur.copy_in[j].from.content)

C14_Witness ==
    /\ pc = "copy_in"
    /\ idx = 3
    /\ cur.copy_in = <<Transfer(Data(DataY), Tmp(7)), Transfer(Tmp(7), Stdin)>>
    /\ stdin = Some(DataY)
    /\ tmp[7] = DataY


\* every line of s ends in a newline and none has a space, tab or carriage
\* return right before its end
CleanLines(s) ==
    /\ s # <<>> => s[Len(s)] = NL
    /\ \A i \in 1..(Len(s) - 1) : s[i + 1] = NL => s[i] \notin {SP, TAB, CR}

\* C15: with autofix absent, every "stdout" file of a result, whatever the
\* max_size of its Stdout entry, consists of lines that end in a newline
\* and carry no trailing space, tab or carriage return.
C15_ReturnedStdoutIsClean ==
    (pc = "exec_ret" /\ result.kind = "ok") =>
        \A i \in 1..Len(result.return_files) :
            result.return_files[i].name = <<"stdout">> =>
                CleanLines(result.return_files[i].content)

\* the lines of s: split at each newline, no extra line after a final one
RECURSIVE SplitLines(_)
SplitLines(s) ==
    IF s = <<>> THEN <<>>
    ELSE LET k == CHOOSE k \in 1..(Len(s) + 1) :
                      /\ k = Len(s) + 1 \/ s[k] = NL
                      /\ \A j \in 1..(k - 1) : s[j] # NL
         IN <<SubSeq(s, 1, k - 1)>> \o SplitLines(SubSeq(s, k + 1, Len(s)))

\* line l without its trailing spaces, tabs and carriage returns
RECURSIVE StripRight(_)
StripRight(l) ==
    IF l # <<>> /\ l[Len(l)] \in {SP, TAB, CR}
    THEN StripRight(SubSeq(l, 1, Len(l) - 1))
    ELSE l

\* each line stripped and followed by one newline, concatenated
RECURSIVE JoinStripped(_)
JoinStripped(ls) ==
    IF ls = <<>> THEN <<>>
    ELSE StripRight(Head(ls)) \o <<NL>> \o JoinStripped(Tail(ls))

\* C16: the stdout an execution returns uncapped, which is autofix of what
\* the child printed, is the concatenation over the lines of the printed
\* bytes of the stripped line and one newline; nothing printed gives nothing.
C16_AutofixIsLineStrip ==
    (/\ pc = "exec_ret"
     /\ result.kind = "ok"
     /\ cur.return_files[1] = Stdout(NoMax)) =>
        /\ result.return_files[1].content = JoinStripped(SplitLines(output.stdout))
        /\ output.stdout = <<>> => result.return_files[1].content = <<>>

C16_Witness ==
    /\ pc = "exec_ret"
    /\ result.kind = "ok"
    /\ cur.return_files[1] = Stdout(NoMax)
    /\ output.stdout = <<111, CR, NL>>
    /\ result.return_files[1].content = <<111, NL>>

\* the first min(m, Len(s)) bytes of s; all of s when no cap is given
FirstBytes(s, m) ==
    IF m = NoMax THEN s
    ELSE [i \in 1..(IF m < Len(s) THEN m ELSE Len(s)) |-> s[i]]

\* the stream a Stdout / Stderr path names: stdout normalised, stderr as printed
StreamOf(fp) == IF fp.kind = "stdout" THEN autofix(output.stdout) ELSE output.stderr

\* what a Stdout / Stderr path must yield
Capped(fp) == FirstBytes(StreamOf(fp), fp.max_size)

\* C17: a Stdout{max_size = m} or Stderr{max_size = m} source yields the
\* first min(m, len) bytes of its stream (stdout after normalisation), in
\* return_files and in copy_out: nothing for m = 0, the whole stream for
\* m >= len and for an absent max_size.
C17_MaxSizeCutsStream ==
    /\ (pc = "exec_ret" /\ result.kind = "ok") =>
          \A i \in 1..Len(cur.return_files) :
              LET fp == cur.return_files[i]
                  got == result.return_files[i].content
              IN fp.kind \in {"stdout", "stderr"} =>
                    /\ got = Capped(fp)
                    /\ fp.max_size = 0 => got = <<>>
                    /\ (fp.max_size = NoMax \/ fp.max_size >= Len(StreamOf(fp))) =>
                          got = StreamOf(fp)
    /\ (pc = "return_files" /\ idx = 1 /\ CopyOutAllowed(output)) =>
          \A j \in 1..Len(cur.copy_out) :
              LET d == cur.copy_out[j]
              IN (d.from.kind \in {"stdout", "stderr"} /\ LastWriter(cur.copy_out, j)) =>
                    /\ d.to.kind = "tmp" => tmp[d.to.id] = Capped(d.from)
                    /\ d.to.kind = "remote" => blob[d.to.name] = Capped(d.from)
                    /\ d.to.kind = "local" => host[d.to.name] = Capped(d.from)

C17_Witness ==
    /\ pc = "exec_ret"
    /\ result.kind = "ok"
    /\ cur.return_files = <<Stdout(1), Stderr(1)>>
    /\ cur.copy_out = <<Transfer(Stdout(1), Tmp(7)), Transfer(Stderr(1), Remote("r"))>>
    /\ output.stdout = <<111, SP, NL>>
    /\ result.return_files[1].content = <<111>>
    /\ tmp[7] = <<111>>
    /\ blob["r"] = <<111>>


\* C18: in every state reached after cleanup() has returned, the Worker's
\* scratch root does not exist.
C18_NoRootAfterCleanup == cleanups >= 1 => ~root


\* a step of the second request's Worker
OtherStep == o_pc' # o_pc \/ o_ops' # o_ops

\* C19: while two Workers are alive their scratch roots are distinct, and no
\* operation of the second Worker creates, writes or removes anything under
\* the first Worker's scratch root.
C19_WorkersKeepApart ==
    [][/\ (pc' \notin {"new", "done", "panicked"} /\ o_pc' = "alive") =>
             o_path' # FirstPath
       /\ (pc \notin {"new", "done", "panicked"} /\ o_pc = "alive" /\ OtherStep) =>
             (scratch' = scratch /\ root' = root)]_vars

\* when the first Worker has applied its copy_in list, every Tmp id the list
\* wrote from Data holds the bytes of the last such directive
OwnTmpBytes ==
    (pc = "copy_in" /\ idx > Len(cur.copy_in)) =>
        \A j \in 1..Len(cur.copy_in) :
            LET d == cur.copy_in[j]
            IN (d.from.kind = "data" /\ d.to.kind = "tmp" /\ LastWriter(cur.copy_in, j)) =>
                  (d.to.id \in DOMAIN tmp /\ tmp[d.to.id] = d.from.content)

\* C20: a step of one Worker leaves the Tmp map of the other as it was, in
\* any interleaving of the two requests, and the bytes the first Worker finds
\* under its Tmp ids are those its own directives stored, whatever the
\* second Worker stored under the same ids.
C20_TmpIsPerWorker ==
    [][/\ OtherStep => tmp' = tmp
       /\ ~OtherStep => o_tmp' = o_tmp
       /\ OwnTmpBytes']_vars

C20_Witness ==
    /\ o_pc = "alive"
    /\ pc = "copy_in"
    /\ idx > Len(cur.copy_in)
    /\ 7 \in DOMAIN tmp
    /\ 7 \in DOMAIN o_tmp
    /\ tmp[7] = DataY
    /\ o_tmp[7] = DataX

(***************************************************************************)
(* C21  The wall-time deadline.                                            *)
(***************************************************************************)
\* the deadline (or a signal) ended the child: its status carries no exit_code
Killed(o) == ~o.exit_code.some

\* C21: when the child is still running at wall_time_limit, execute returns
\* Ok, not an ExecutionError, and the result's exit_code is non-zero.  Stated
\* for an execution that asks for no return_files, so that nothing but the
\* wait and the copy_out phase stands between the deadline and the result:
\* once the wait has handed execute the output of a killed child, execute
\* ends with an Ok result whose exit_code is not 0.
C21_DeadlineYieldsOk ==
    (/\ pc \in {"exec_ret", "panicked"}
     /\ child = "waited"
     /\ Killed(output)
     /\ cur.return_files = <<>>)
        => (result.kind = "ok" /\ result.exit_code # 0)

(***************************************************************************)
(* C22  Absent resource figures.                                           *)
(***************************************************************************)
\* the output a child has when both figures could be read
Measured(o) ==
    [o EXCEPT !.rusage = Some(UserSystemMs), !.proc_pid_status = Some(Vmrss)]

\* C22: if rusage (resp. proc_pid_status) is absent from the child's status,
\* execute still returns Ok with time_used = 0 (resp. memory_used = 0) and
\* with the exit_code and return_files it returns when the figures are
\* present: once the return_files loop is through, execute returns Ok
\* whatever the figures are, and the Ok result differs from the one of the
\* measured child in time_used and memory_used only, which are 0 for an
\* absent figure.
C22_AbsentFiguresReadZero ==
    [][/\ (pc = "return_files" /\ idx > Len(cur.return_files) /\ pc' # pc) =>
            /\ pc' = "exec_ret"
            /\ result'.kind = "ok"
       /\ (pc' = "exec_ret" /\ result'.kind = "ok") =>
            /\ ~output'.rusage.some => result'.time_used = 0
            /\ ~output'.proc_pid_status.some => result'.memory_used = 0
            /\ output'.rusage.some => result'.time_used = UserSystemMs
            /\ output'.proc_pid_status.some => result'.memory_used = Vmrss
            /\ [result' EXCEPT !.time_used = UserSystemMs, !.memory_used = Vmrss]
                 = Ok(Measured(output').code, time_used(Measured(output')),
                      memory_used(Measured(output')), ret')]_vars

\* a child whose rusage is absent has returned Ok with its exit code, its
\* memory figure and a returned file
C22_Witness ==
    /\ pc = "exec_ret"
    /\ result.kind = "ok"
    /\ ~output.rusage.some
    /\ result.time_used = 0
    /\ result.memory_used = Vmrss
    /\ result.exit_code = 1
    /\ Len(result.return_files) > 0

(***************************************************************************)
(* C23  Unsupported copy_in paths.                                         *)
(***************************************************************************)
\* the copy_in directive execute is about to process
AtCopyIn == pc = "copy_in" /\ idx <= Len(cur.copy_in)

\* execute has returned the unsupported-path error of copy_in
CopyInRejected ==
    /\ pc = "exec_ret"
    /\ result = Err("Unsupported file path for copy_in")

ReceivedInOrder ==
    \A i \in 1..Len(sent) :
        /\ sent[i].exec <= started
        /\ \A j \in 1..Len(sent) : i < j => sent[i].exec < sent[j].exec

\* C24: in a batch, the result of execution N is handed to the response
\* channel before any step of execution N+1 (its first copy_in directive)
\* begins, and the caller receives the results in the order of the
\* executions: the step that takes an ExecutionResult from execute hands it
\* to the channel (it is the next message the caller receives, unless the
\* caller is gone) without starting an execution; an execution starts only
\* from the head of the loop, where no result is held back and no directive
\* of it has run; and what the caller has received is in execution order.
C24_ResultBeforeNextExecution ==
    /\ []ReceivedInOrder
    /\ [][/\ (pc = "exec_ret" /\ result.kind = "ok" /\ pc' # "exec_ret") =>
               /\ started' = started
               /\ \/ sent' = Append(sent, Msg(started, result))
                  \/ ~connected' /\ sent' = sent
          /\ started' # started =>
               /\ pc = "loop"
               /\ result = NoResult
               /\ started' = started + 1
               /\ pc' = "copy_in"
               /\ idx' = 1
          /\ (pc' = "copy_in" /\ pc # "copy_in") => started' = started + 1]_vars

\* the caller holds the results of two executions of one batch
C24_Witness ==
    /\ mode = "sse"
    /\ started = 2
    /\ sent = <<[exec |-> 1, kind |-> "ok"], [exec |-> 2, kind |-> "ok"]>>

(***************************************************************************)
(* C25  A caller that went away.                                           *)
(***************************************************************************)
\* C25: if the caller disconnects while a batch is running (the receiving
\* end of the result channel is dropped, or the WebSocket send fails), the
\* request's scratch root is eventually removed.
C25_DisconnectLeadsToRemoval ==
    (~connected /\ started >= 1) ~> ~root

(***************************************************************************)
(* C26  A failed initial file ends the request.                            *)
(***************************************************************************)
\* the runner has returned out of the loop over the initial files: a file is
\* still unstaged though the task is over
StagingFailed == pc = "done" /\ files_left > 0

exceptFeeder ==
    <<mode, pc, files_left, batch_left, single, started, cur, idx, stdin, child,
      output, ret, result, tmp, scratch, host, blob, root, child_ran, cleanups,
      connected, sent, otherVars>>

\* C27: if the stdin producer thread's write to the child's pipe fails, or
\* blocks because the child never reads, execute still returns Ok with the
\* child's status and the captured stdout and stderr: the producer thread
\* runs concurrently with the wait and can neither fail nor delay it beyond
\* wall_time_limit.  The end of the thread, written through or failed,
\* changes nothing execute or the runner reads (the thread is otherwise
\* forgotten when the runner drops the execution); the wait can be taken
\* whether the thread has ended or is still blocked; and an execution that
\* returns Ok while or after the thread ran carries status.code and, for
\* every returned stream, the captured bytes.
C27_ProducerCannotFailTheWait ==
    /\ [][feeder = "writing" /\ feeder' = "none" =>
            \/ UNCHANGED exceptFeeder
            \/ pc = "exec_ret" /\ result' = NoResult]_vars
    /\ [](pc = "wait" => ENABLED Wait)
    /\ []((pc = "exec_ret" /\ child = "waited" /\ result.kind = "ok") =>
            /\ result.exit_code = output.code
            /\ \A i \in 1..Len(cur.return_files) :
                 cur.return_files[i].kind \in {"stdout", "stderr"} =>
                     result.return_files[i].content
                         = StreamSource(output, cur.return_files[i]))

\* the child never read and was killed at the deadline; execute has returned
\* Ok with its status and streams while the producer is still blocked
C27_Witness ==
    /\ pc = "exec_ret"
    /\ feeder = "writing"
    /\ Killed(output)
    /\ result.kind = "ok"
    /\ result.exit_code = 137
    /\ Len(result.return_files) = 2
    /\ result.return_files[1].name = <<"stdout">>

(***************************************************************************)
(* C28  copy_in to a Remote sink.                                          *)
(***************************************************************************)
\* C28: a copy_in directive whose sink is Remote{id} stores the resolved
\* source bytes in the BlobStore under id (BlobStore.put), as a copy_out
\* directive with that sink does: for a Data source (resolved without any
\* I/O), the step of the directive leaves the content under id and goes on
\* to the next directive.
C28_CopyInPutsRemote ==
    [][(/\ AtCopyIn
        /\ cur.copy_in[idx].from.kind = "data"
        /\ cur.copy_in[idx].to.kind = "remote") =>
            /\ cur.copy_in[idx].to.name \in DOMAIN blob'
            /\ blob'[cur.copy_in[idx].to.name] = cur.copy_in[idx].from.content
            /\ pc' = "copy_in"
            /\ idx' = idx + 1]_vars

(***************************************************************************)
(* C29  The sources copy_out takes.                                        *)
(***************************************************************************)
\* the copy_out directive execute is about to process
AtCopyOut == pc = "copy_out" /\ idx <= Len(cur.copy_out)

\* the step is one of execute's own (the producer thread moves neither)
ExecuteStep == pc' # pc \/ idx' # idx

\* C29: a copy_out directive accepts every source kind of the FileRouter
\* source matrix: with exit code 0, a Tmp{id}, Data{content} or Remote{id}
\* source resolves to its bytes (tmp-map entry, literal content,
\* BlobStore.get) and the sink is written, instead of the execution
\* failing.  Stated for the sinks that need no I/O of their own or whose
\* I/O went through: when the step of such a directive does not panic, the
\* execution has not failed and the sink holds the source's bytes.
C29_CopyOutTakesEverySource ==
    [][(/\ AtCopyOut
        /\ ExecuteStep
        /\ output.exit_code = ExitCode(TRUE, 0)
        /\ cur.copy_out[idx].from.kind \in {"tmp", "data", "remote"}
        /\ pc' # "panicked") =>
            LET from == cur.copy_out[idx].from
                to == cur.copy_out[idx].to
                bytes == CASE from.kind = "tmp" -> TmpSource(tmp, from.id)
                           [] from.kind = "data" -> from.content
                           [] OTHER -> BlobGet(blob, from.name)
            IN /\ pc' # "exec_ret"
               /\ to.kind = "tmp" => (to.id \in DOMAIN tmp' /\ tmp'[to.id] = bytes)
               /\ to.kind = "remote" =>
                    (to.name \in DOMAIN blob' /\ blob'[to.name] = bytes)]_vars

(***************************************************************************)
(* C30  Reading a Tmp source keeps the entry.                              *)
(***************************************************************************)
\* the step is the return_files entry Tmp{id} being taken
ReturnsTmp(id) ==
    /\ pc = "return_files"
    /\ idx <= Len(cur.return_files)
    /\ cur.return_files[idx].kind = "tmp"
    /\ cur.return_files[idx].id = id

\* C30: resolving a Tmp{id} source in copy_in leaves the Worker's tmp map
\* unchanged: the entry stays readable by later directives and later
\* executions of the same Worker until a return_files entry names it, and
\* only return_files removes entries.  A copy_in step whose source is Tmp
\* changes the map by what its sink stores at most (nothing, for a Stdin or
\* Local sink); and no step of the Worker or of a runner, whatever it is,
\* takes a key out of the map except the return_files step on that key:
\* not the end of the execution, not the start of the next one, not cleanup.
C30_TmpSourceKeepsEntry ==
    [][/\ (AtCopyIn /\ cur.copy_in[idx].from.kind = "tmp" /\ pc' = "copy_in") =>
            LET to == cur.copy_in[idx].to
            IN IF to.kind = "tmp"
               THEN tmp' = Insert(tmp, to.id, TmpSource(tmp, cur.copy_in[idx].from.id))
               ELSE tmp' = tmp
       /\ \A id \in DOMAIN tmp :
            id \notin DOMAIN tmp' => ReturnsTmp(id)
       /\ \A id \in DOMAIN tmp :
            (id \in DOMAIN tmp' /\ tmp'[id] # tmp[id]) =>
                \/ AtCopyIn /\ cur.copy_in[idx].to = Tmp(id)
                \/ AtCopyOut /\ cur.copy_out[idx].to = Tmp(id)]_vars

\* the second execution of a Worker has queued on stdin the entry its first
\* execution stored and read
C30_Witness ==
    /\ started = 2
    /\ pc = "copy_in"
    /\ idx = 2
    /\ cur.copy_in = <<Transfer(Tmp(7), Stdin)>>
    /\ stdin = Some(DataY)
    /\ tmp = Insert(EmptyMap, 7, DataY)

(***************************************************************************)
(* C31  One message per started execution.                                 *)
(***************************************************************************)
\* C31: in the SSE batch runner, every execution that was started produces
\* exactly one message on the response channel (an Ok result or an error)
\* before the batch moves on to the next execution or stops: the step in
\* which an SSE runner takes the outcome of execute and goes on (to the next
\* execution, to cleanup or to its end) hands one message for that
\* execution to the channel, which a caller that still listens receives.
C31_OneMessagePerExecution ==
    [][(/\ pc = "exec_ret"
        /\ mode \in {"sse", "main"}
        /\ pc' # "exec_ret"
        /\ connected') =>
            sent' = Append(sent, Msg(started, result))]_vars

(***************************************************************************)
(* C32  A failed copy_in is not rolled back.                               *)
(***************************************************************************)
\* execute has returned an ExecutionError out of its copy_in loop
CopyInFailed ==
    /\ pc = "exec_ret"
    /\ result.kind = "err"
    /\ child = "none"
    /\ result.message = "Unsupported file path for copy_in"

\* C32: when execute returns an ExecutionError from a copy_in directive, the
\* effects of the earlier directives of that list are not rolled back: the
\* Tmp entries they stored and the scratch files they wrote remain and are
\* visible to the next execution on the same Worker.  The step of the
\* directive that fails leaves the tmp map and scratch as the earlier
\* directives made them; a runner that goes on with the Worker (the SSE
\* runner of handlers/run.rs and the WebSocket handler; the runner of
\* main.rs ends the request) takes the error without touching them; and the
\* next execution is entered with them as they are.
C32_FailedCopyInKeepsEffects ==
    [][/\ (AtCopyIn /\ CopyInFailed') => (tmp' = tmp /\ scratch' = scratch)
       /\ (CopyInFailed /\ mode # "main" /\ pc' # "exec_ret") =>
            (tmp' = tmp /\ scratch' = scratch /\ root' = root)
       /\ (pc = "loop" /\ pc' = "copy_in") =>
            (tmp' = tmp /\ scratch' = scratch /\ root' = root)]_vars

\* the first execution wrote scratch file a and then failed in copy_in,
\* nothing was sent for it, and the second execution has returned that file
C32_Witness ==
    /\ mode = "sse"
    /\ started = 2
    /\ connected
    /\ sent = <<>>
    /\ pc = "exec_ret"
    /\ result.kind = "ok"
    /\ result.return_files = <<ExecutionFile(LocalName("a"), DataX)>>

(***************************************************************************)
(* C33  A Local source of copy_out that does not exist.                    *)
(***************************************************************************)
\* the copy_out directive at hand has a Local source with no scratch file
AtMissingLocal ==
    /\ AtCopyOut
    /\ output.exit_code = ExitCode(TRUE, 0)
    /\ cur.copy_out[idx].from.kind = "local"
    /\ cur.copy_out[idx].from.name \notin DOMAIN scratch

\* C33: in copy_out with exit code 0, a Local{name, executable: false}
\* source whose scratch file does not exist resolves to empty bytes and the
\* directive's sink is still written; with executable: true execute returns
\* an ExecutionError, and the remaining copy_out directives and all
\* return_files are not processed.  In the error case the step writes no
\* sink and ends execute with nothing returned; the runner then drops the
\* execution, so no later directive of it runs.
C33_MissingLocalInCopyOut ==
    [][/\ (AtMissingLocal /\ ExecuteStep) =>
            LET from == cur.copy_out[idx].from
                to == cur.copy_out[idx].to
            IN IF from.executable
               THEN /\ pc' = "exec_ret"
                    /\ result' = Err("failed to open file for copy_out")
                    /\ UNCHANGED <<tmp, scratch, host, blob, ret>>
                    /\ ret = <<>>
               ELSE /\ to.kind = "tmp" =>
                        /\ pc' \in {"copy_out", "return_files"}
                        /\ to.id \in DOMAIN tmp'
                        /\ tmp'[to.id] = <<>>
                    /\ (to.kind = "remote" /\ pc' # "panicked") =>
                        (to.name \in DOMAIN blob' /\ blob'[to.name] = <<>>)
       /\ (pc = "exec_ret" /\ pc' # "exec_ret") =>
            (pc' \notin {"copy_out", "return_files"} /\ ret' = <<>>)]_vars

\* the first of two copy_out directives named a missing executable file:
\* execute has returned the error with the second directive and the
\* return_files untouched
C33_Witness ==
    /\ pc = "exec_ret"
    /\ result = Err("failed to open file for copy_out")
    /\ output.exit_code = ExitCode(TRUE, 0)
    /\ idx = 1
    /\ Len(cur.copy_out) = 2
    /\ Len(cur.return_files) > 0
    /\ ret = <<>>
    /\ tmp = EmptyMap

====
